---- MODULE Spec2Model ----
(***************************************************************************)
(* Model of the two scraper scripts of .genesis/human/scripts:             *)
(*   scrape_pricing.py  - PricingParser, scrape_pricing_page, CLI          *)
(*   scrape_reviews.py  - scrape_apple_reviews, analyze_reviews, CLI       *)
(* Strings are sequences of one-character strings, so that lower(),        *)
(* strip(), slicing and the substring test are computed, not assumed.      *)
(***************************************************************************)
EXTENDS Integers, Sequences, FiniteSets, TLC

VARIABLES
    in_price, prices, current_text,   \* PricingParser fields
    raised,                           \* PricingParser: a handler raised, feed() aborted
    events,                           \* the tokenizer events fed to the parser so far
    reviews, analysis,                \* the review list and analyze_reviews' result
    tool,                             \* which script runs: "pricing" or "reviews"
    args,                             \* argparse's namespace
    pc,                               \* the script's position
    results,                          \* scrape_pricing.py: the results list
    pending,                          \* the competitors the --all loop has yet to visit
    output,                           \* the dict handed to the output step
    fetches,                          \* every urlopen call made, with its outcome
    console,                          \* what was printed
    outfile,                          \* what was written to the --output file
    exit_code                         \* the process exit status

vars == <<in_price, prices, current_text, raised, events, reviews, analysis,
          tool, args, pc, results, pending, output, fetches, console, outfile,
          exit_code>>

parserVars == <<in_price, prices, current_text, raised, events>>
analyzeVars == <<reviews, analysis>>
cliVars == <<tool, args, pc, results, pending, output, fetches, console,
             outfile, exit_code>>

----------------------------------------------------------------------------
(* Python str primitives                                                   *)

\* the letters str.lower() changes
LowerMap ==
    [c \in {"A","B","C","D","E","F","G","H","I","J","K","L","M",
            "N","O","P","Q","R","S","T","U","V","W","X","Y","Z"} |->
        CASE c = "A" -> "a" [] c = "B" -> "b" [] c = "C" -> "c" [] c = "D" -> "d"
          [] c = "E" -> "e" [] c = "F" -> "f" [] c = "G" -> "g" [] c = "H" -> "h"
          [] c = "I" -> "i" [] c = "J" -> "j" [] c = "K" -> "k" [] c = "L" -> "l"
          [] c = "M" -> "m" [] c = "N" -> "n" [] c = "O" -> "o" [] c = "P" -> "p"
          [] c = "Q" -> "q" [] c = "R" -> "r" [] c = "S" -> "s" [] c = "T" -> "t"
          [] c = "U" -> "u" [] c = "V" -> "v" [] c = "W" -> "w" [] c = "X" -> "x"
          [] c = "Y" -> "y" [] c = "Z" -> "z"]

\* str.lower() on one character
LowerChar(c) == IF c \in DOMAIN LowerMap THEN LowerMap[c] ELSE c

\* str.lower()
Lower(s) == SubSeq([i \in 1..Len(s) |-> LowerChar(s[i])], 1, Len(s))

\* the characters str.strip() removes
IsSpace(c) == c \in {" ", "\t", "\n", "\r"}

\* str.strip(): drop leading and trailing whitespace
Strip(s) ==
    LET keep == {i \in 1..Len(s) : ~IsSpace(s[i])} IN
    IF keep = {} THEN <<>>
    ELSE LET lo == CHOOSE i \in keep : \A j \in keep : i <= j
             hi == CHOOSE i \in keep : \A j \in keep : j <= i
         IN SubSeq(s, lo, hi)

\* the "needle in haystack" substring test
Contains(haystack, needle) ==
    \E i \in 1..(Len(haystack) - Len(needle) + 1) :
        \A j \in 1..Len(needle) : haystack[i + j - 1] = needle[j]

\* s[:n] for n >= 0 and for n < 0 (Python slice semantics)
SliceTo(s, n) ==
    IF n >= 0
    THEN SubSeq(s, 1, IF n < Len(s) THEN n ELSE Len(s))
    ELSE SubSeq(s, 1, IF Len(s) + n > 0 THEN Len(s) + n ELSE 0)

----------------------------------------------------------------------------
(* PricingParser                                                           *)

\* an attribute value: a string, or None for a valueless attribute
StrVal(s) == [none |-> FALSE, s |-> s]
NoneVal == [none |-> TRUE, s |-> <<>>]

\* dict(attrs).get(name, default): the last pair named name wins
AttrsGet(attrs, name, default) ==
    LET idx == {i \in 1..Len(attrs) : attrs[i][1] = name} IN
    IF idx = {} THEN default
    ELSE attrs[CHOOSE i \in idx : \A j \in idx : j <= i][2]

PriceKeywords == << <<"p","r","i","c","e">>, <<"c","o","s","t">>,
                    <<"a","m","o","u","n","t">>, <<"p","l","a","n">>,
                    <<"t","i","e","r">> >>

\* PricingParser.__init__
NewParser == [in_price |-> FALSE, prices |-> <<>>, current_text |-> <<>>,
              raised |-> FALSE]

\* PricingParser.handle_starttag; None.lower() raises AttributeError
handle_starttag(p, attrs) ==
    LET class_name == AttrsGet(attrs, "class", StrVal(<<>>)) IN
    IF class_name.none THEN [p EXCEPT !.raised = TRUE]
    ELSE IF \E k \in 1..Len(PriceKeywords) :
                Contains(Lower(class_name.s), PriceKeywords[k])
         THEN [p EXCEPT !.in_price = TRUE]
         ELSE p

\* a variant whose two resets sit inside the if, with the append
handle_endtag_lazy(p) ==
    IF p.in_price /\ Strip(p.current_text) # <<>>
    THEN [p EXCEPT !.prices = Append(p.prices, Strip(p.current_text)),
                   !.in_price = FALSE,
                   !.current_text = <<>>]
    ELSE p

\* PricingParser.handle_endtag
handle_endtag(p) ==
    [p EXCEPT !.prices = IF p.in_price /\ Strip(p.current_text) # <<>>
                         THEN Append(p.prices, Strip(p.current_text))
                         ELSE p.prices,
              !.in_price = FALSE,
              !.current_text = <<>>]

\* a variant that accumulates text outside a price element too
handle_data_always(p, data) == [p EXCEPT !.current_text = p.current_text \o data]

\* PricingParser.handle_data
handle_data(p, data) ==
    IF p.in_price THEN [p EXCEPT !.current_text = p.current_text \o data]
    ELSE p

StartEv(attrs) == [type |-> "start", attrs |-> attrs, data |-> <<>>]
EndEv == [type |-> "end", attrs |-> <<>>, data |-> <<>>]
DataEv(d) == [type |-> "data", attrs |-> <<>>, data |-> d]

\* one tokenizer callback
Dispatch(p, ev) ==
    IF ev.type = "start" THEN handle_starttag(p, ev.attrs)
    ELSE IF ev.type = "end" THEN handle_endtag(p)
    ELSE handle_data(p, ev.data)

\* HTMLParser.feed over a token stream; the first raising handler aborts it
RECURSIVE FeedFrom(_, _)
FeedFrom(p, evs) ==
    IF evs = <<>> \/ p.raised THEN p
    ELSE FeedFrom(Dispatch(p, Head(evs)), Tail(evs))

\* bound on the number of tokenizer events of a document
MaxEvents == 5

ClsPrice == <<"p","r","i","c","e">>
ClsPlanCard == <<"P","l","a","n","-","c","a","r","d">>
ClsNav == <<"n","a","v">>

\* the attribute lists of the start tags of the modelled documents
AttrChoices == { << <<"class", StrVal(ClsPrice)>> >>,
                 << <<"class", StrVal(ClsPlanCard)>> >>,
                 << <<"class", StrVal(ClsNav)>> >>,
                 << <<"id", StrVal(ClsPrice)>> >>,
                 << <<"class", NoneVal>> >> }

\* the text chunks of the modelled documents
DataChoices == { <<" ">>, <<" ","$","9","\n">>, <<"m","o">> }

P == [in_price |-> in_price, prices |-> prices, current_text |-> current_text,
      raised |-> raised]

SetParser(q) ==
    /\ in_price' = q.in_price
    /\ prices' = q.prices
    /\ current_text' = q.current_text
    /\ raised' = q.raised

CanFeed == ~raised /\ Len(events) < MaxEvents

FeedStartTag ==
    /\ CanFeed
    /\ \E attrs \in AttrChoices :
        /\ SetParser(handle_starttag(P, attrs))
        /\ events' = Append(events, StartEv(attrs))
    /\ UNCHANGED <<analyzeVars, cliVars>>

FeedEndTag ==
    /\ CanFeed
    /\ SetParser(handle_endtag(P))
    /\ events' = Append(events, EndEv)
    /\ UNCHANGED <<analyzeVars, cliVars>>

FeedData ==
    /\ CanFeed
    /\ \E d \in DataChoices :
        /\ SetParser(handle_data(P, d))
        /\ events' = Append(events, DataEv(d))
    /\ UNCHANGED <<analyzeVars, cliVars>>

\* analyze_reviews has not been called
NoAnalysis == [total_reviews |-> -1]
\* nothing handed to the output step, nothing written
NoOutput == [results |-> <<>>, built |-> FALSE]

\* no parser is in use
ParserIdle ==
    /\ in_price = NewParser.in_price
    /\ prices = NewParser.prices
    /\ current_text = NewParser.current_text
    /\ raised = NewParser.raised
    /\ events = <<>>

\* no script is running
CliIdle ==
    /\ tool = "none"
    /\ args = <<>>
    /\ pc = "idle"
    /\ results = <<>>
    /\ pending = <<>>
    /\ output = NoOutput
    /\ fetches = <<>>
    /\ console = <<>>
    /\ outfile = NoOutput
    /\ exit_code = 0

ParserInit ==
    /\ ParserIdle
    /\ reviews = <<>>
    /\ analysis = NoAnalysis
    /\ CliIdle

ParserNext == FeedStartTag \/ FeedEndTag \/ FeedData

SpecParser == ParserInit /\ [][ParserNext]_vars

----------------------------------------------------------------------------
(* analyze_reviews                                                         *)

\* dict.get(key, default)
Get(d, key, default) == IF key \in DOMAIN d THEN d[key] ELSE default

ComplaintKeywords == << <<"s","l","o","w">>, <<"c","r","a","s","h">>,
    <<"b","u","g">>, <<"e","x","p","e","n","s","i","v","e">>,
    <<"c","o","n","f","u","s","i","n","g">>,
    <<"d","i","f","f","i","c","u","l","t">>, <<"b","r","o","k","e","n">>,
    <<"p","o","o","r">>, <<"t","e","r","r","i","b","l","e">>,
    <<"w","o","r","s","t">> >>

PraiseKeywords == << <<"l","o","v","e">>, <<"g","r","e","a","t">>,
    <<"a","m","a","z","i","n","g">>, <<"e","a","s","y">>, <<"b","e","s","t">>,
    <<"p","e","r","f","e","c","t">>, <<"e","x","c","e","l","l","e","n","t">>,
    <<"a","w","e","s","o","m","e">> >>

FeatureKeywords == << <<"w","i","s","h">>,
    <<"w","o","u","l","d"," ","b","e"," ","n","i","c","e">>,
    <<"p","l","e","a","s","e"," ","a","d","d">>, <<"n","e","e","d">>,
    <<"s","h","o","u","l","d"," ","h","a","v","e">>,
    <<"m","i","s","s","i","n","g">> >>

\* the length a stored review text is cut to
ContentCut == 200
\* the length each categorized list is cut to
ListCap == 10
\* a complaint needs rating <= ComplaintMax, a praise rating >= PraiseMin
ComplaintMax == 3
PraiseMin == 4
\* the default rating of the complaint test and of the other two reads
ComplaintDefault == 5
RatingDefault == 0

\* the lowercased content + " " + title of a review
Haystack(review) ==
    Lower(Get(review, "content", <<>>) \o <<" ">> \o Get(review, "title", <<>>))

\* a variant of the complaint loop that reads a missing rating as 0
IsComplaint_default0(content, review) ==
    \E k \in 1..Len(ComplaintKeywords) :
        /\ Contains(content, ComplaintKeywords[k])
        /\ Get(review, "rating", RatingDefault) <= ComplaintMax

\* the complaint loop: some keyword is in content and the rating is low
IsComplaint(content, review) ==
    \E k \in 1..Len(ComplaintKeywords) :
        /\ Contains(content, ComplaintKeywords[k])
        /\ Get(review, "rating", ComplaintDefault) <= ComplaintMax

\* the praise loop
IsPraise(content, review) ==
    \E k \in 1..Len(PraiseKeywords) :
        /\ Contains(content, PraiseKeywords[k])
        /\ Get(review, "rating", RatingDefault) >= PraiseMin

\* the feature-request loop
IsFeature(content, review) ==
    \E k \in 1..Len(FeatureKeywords) : Contains(content, FeatureKeywords[k])

\* a variant that stores the whole content
Stored_uncut(review) == Get(review, "content", <<>>)

\* review.get("content", "")[:200]
Stored(review) == SliceTo(Get(review, "content", <<>>), ContentCut)

RECURSIVE SumRatings(_)
SumRatings(rs) ==
    IF rs = <<>> THEN 0
    ELSE Get(Head(rs), "rating", RatingDefault) + SumRatings(Tail(rs))

\* round(num / den, 2) in hundredths; a tie goes to the even hundredth
RoundHundredths(num, den) ==
    LET q == (100 * num) \div den
        r == (100 * num) % den
    IN IF 2 * r < den THEN q
       ELSE IF 2 * r > den THEN q + 1
       ELSE IF q % 2 = 0 THEN q ELSE q + 1

\* a variant that opens a bucket for a rating the dict does not have
RECURSIVE Distribution_setdefault(_, _)
Distribution_setdefault(rs, dist) ==
    IF rs = <<>> THEN dist
    ELSE LET rating == Get(Head(rs), "rating", RatingDefault) IN
         Distribution_setdefault(Tail(rs),
            [b \in DOMAIN dist \cup {rating} |->
                IF b = rating THEN Get(dist, rating, 0) + 1 ELSE dist[b]])

\* the rating loop: one increment per review whose rating is a bucket key
RECURSIVE Distribution(_, _)
Distribution(rs, dist) ==
    IF rs = <<>> THEN dist
    ELSE LET rating == Get(Head(rs), "rating", RatingDefault) IN
         Distribution(Tail(rs),
                      IF rating \in DOMAIN dist
                      THEN [dist EXCEPT ![rating] = dist[rating] + 1]
                      ELSE dist)

\* the categorization loop: each review is appended at most once to each list
RECURSIVE Categorize(_, _)
Categorize(rs, acc) ==
    IF rs = <<>> THEN acc
    ELSE LET review == Head(rs)
             content == Haystack(review)
         IN Categorize(Tail(rs),
                [complaints |-> IF IsComplaint(content, review)
                                THEN Append(acc.complaints, Stored(review))
                                ELSE acc.complaints,
                 praises |-> IF IsPraise(content, review)
                             THEN Append(acc.praises, Stored(review))
                             ELSE acc.praises,
                 features |-> IF IsFeature(content, review)
                              THEN Append(acc.features, Stored(review))
                              ELSE acc.features])

\* analyze_reviews; average_rating is held in hundredths
analyze_reviews(rs) ==
    IF rs = <<>>
    THEN [total_reviews |-> 0, average_rating |-> 0,
          rating_distribution |-> [b \in 1..5 |-> 0],
          common_complaints |-> <<>>, common_praises |-> <<>>,
          feature_requests |-> <<>>]
    ELSE LET cat == Categorize(rs, [complaints |-> <<>>, praises |-> <<>>,
                                    features |-> <<>>])
         IN [total_reviews |-> Len(rs),
             average_rating |-> RoundHundredths(SumRatings(rs), Len(rs)),
             rating_distribution |-> Distribution(rs, [b \in 1..5 |-> 0]),
             common_complaints |-> SliceTo(cat.complaints, ListCap),
             common_praises |-> SliceTo(cat.praises, ListCap),
             feature_requests |-> SliceTo(cat.features, ListCap)]

\* bound on the length of the review lists given to analyze_reviews
MaxReviews == 11
\* the length of the filler that makes one review text longer than the cut
FillLen == 198

TxtCrash == <<"A","p","p"," ","C","r","a","s","h","e","s">>
TxtWouldBe == <<"w","o","u","l","d"," ","b","e">>
TxtMixed == <<"s","l","o","w",","," ","l","o","v","e",","," ","w","i","s","h">>
TxtLong == <<"b","u","g"," ">> \o [i \in 1..FillLen |-> "x"]
TxtNice == <<"N","i","c","e">>

ReviewTexts == {TxtCrash, TxtWouldBe, TxtMixed}
ReviewTitles == {<<>>, TxtNice}
ReviewRatings == {0, 3, 4, 6}

\* a review record as scrape_apple_reviews builds it
Review(rating, title, content) ==
    [rating |-> rating, title |-> title, content |-> content,
     author |-> <<>>, version |-> <<>>]

\* the review records of the modelled inputs: with and without a rating
\* field, and two whose content is longer than the cut
ReviewChoices ==
    {Review(r, t, c) : r \in ReviewRatings, t \in ReviewTitles, c \in ReviewTexts}
    \cup {[title |-> t, content |-> c] : t \in ReviewTitles, c \in ReviewTexts}
    \cup {Review(3, <<>>, TxtLong), Review(4, TxtNice, TxtMixed \o TxtLong)}

\* the list a, b, a, b, ... of length n
Alternate(a, b, n) == [i \in 1..n |-> IF i % 2 = 1 THEN a ELSE b]

AnalyzeInit ==
    /\ ParserIdle
    /\ CliIdle
    /\ \E a \in ReviewChoices, b \in ReviewChoices, n \in 0..MaxReviews :
          reviews = Alternate(a, b, n)
    /\ analysis = NoAnalysis

\* a caller passes its list to analyze_reviews
Analyze ==
    /\ analysis = NoAnalysis
    /\ analysis' = analyze_reviews(reviews)
    /\ UNCHANGED <<parserVars, reviews, cliVars>>

AnalyzeNext == Analyze

SpecAnalyze == AnalyzeInit /\ [][AnalyzeNext]_vars

----------------------------------------------------------------------------
(* scrape_pricing_page                                                     *)

Exc(cls, code, msg) == [cls |-> cls, code |-> code, msg |-> msg]
NoExc == Exc("", 0, "")

\* str(e) of the exceptions urlopen and feed raise
ExcStr(e) ==
    IF e.cls = "URLError" THEN "<urlopen error " \o e.msg \o ">"
    ELSE IF e.cls = "HTTPError"
         THEN "HTTP Error " \o ToString(e.code) \o ": " \o e.msg
         ELSE e.msg

\* what urlopen(...).read() raises: unreachable host, HTTP status, timeout
FetchErrors == { Exc("URLError", 0, "[Errno -2] Name or service not known"),
                 Exc("HTTPError", 404, "Not Found"),
                 Exc("TimeoutError", 0, "timed out") }

\* what handle_starttag raises on a class attribute without a value
AttributeErrorNone ==
    Exc("AttributeError", 0, "'NoneType' object has no attribute 'lower'")

\* what open(args.output, "w") raises on a path that cannot be written
OSErrorOpen == Exc("FileNotFoundError", 0, "[Errno 2] No such file or directory")

\* a fetched page: its length, its token stream and the strings the three
\* price patterns match in it
Page(length, evs, regex) == [length |-> length, events |-> evs, regex |-> regex]
NoPage == Page(0, <<>>, <<>>)

PagePriced ==
    Page(64, << StartEv(<< <<"class", StrVal(ClsPrice)>> >>),
                DataEv(<<" ","$","9","\n">>), EndEv >>,
         << <<"$","9">>, <<"$","9">> >>)
PageFree ==
    Page(12, << DataEv(<<"m","o">>) >>, << <<"F","R","E","E">> >>)
PageValueless ==
    Page(30, << StartEv(<< <<"class", NoneVal>> >>), DataEv(<<"m","o">>), EndEv >>,
         <<>>)

ErrorResponse(e) == [kind |-> "error", exc |-> e, page |-> NoPage]
PageResponse(pg) == [kind |-> "page", exc |-> NoExc, page |-> pg]

\* the outcomes of one urlopen of a pricing page
PageResponses ==
    {ErrorResponse(e) : e \in FetchErrors}
    \cup {PageResponse(pg) : pg \in {PagePriced, PageFree, PageValueless}}

SeqToSet(seq) == {seq[i] : i \in 1..Len(seq)}

\* the except branch of scrape_pricing_page
FailureResult(url, e) ==
    [url |-> url, prices_found |-> {}, error |-> ExcStr(e), success |-> FALSE]

\* a variant that fetches a second time when the first fetch raises
scrape_pricing_page_retry(url, responses) ==
    LET n == IF responses[1].kind = "error" THEN 2 ELSE 1
        r == responses[n]
    IN IF r.kind = "error"
       THEN [attempts |-> n, result |-> FailureResult(url, r.exc)]
       ELSE LET parser == FeedFrom(NewParser, r.page.events) IN
            IF parser.raised
            THEN [attempts |-> n, result |-> FailureResult(url, AttributeErrorNone)]
            ELSE [attempts |-> n,
                  result |-> [url |-> url,
                              prices_found |-> SeqToSet(parser.prices \o r.page.regex),
                              raw_html_length |-> r.page.length,
                              success |-> TRUE]]

\* scrape_pricing_page: responses are the outcomes successive urlopen calls
\* would have; attempts is the number of calls made
scrape_pricing_page(url, responses) ==
    LET r == responses[1] IN
    IF r.kind = "error"
    THEN [attempts |-> 1, result |-> FailureResult(url, r.exc)]
    ELSE LET parser == FeedFrom(NewParser, r.page.events) IN
         IF parser.raised
         THEN [attempts |-> 1, result |-> FailureResult(url, AttributeErrorNone)]
         ELSE [attempts |-> 1,
               result |-> [url |-> url,
                           prices_found |-> SeqToSet(parser.prices \o r.page.regex),
                           raw_html_length |-> r.page.length,
                           success |-> TRUE]]

----------------------------------------------------------------------------
(* scrape_pricing.py as a script                                           *)

NameTeamsnap == <<"t","e","a","m","s","n","a","p">>
NameSportsengine == <<"s","p","o","r","t","s","e","n","g","i","n","e">>
NameGamechanger == <<"g","a","m","e","c","h","a","n","g","e","r">>

COMPETITOR_URLS ==
    << <<NameTeamsnap, "https://www.teamsnap.com/pricing">>,
       <<NameSportsengine, "https://www.sportsengine.com/solutions/team-management">>,
       <<NameGamechanger, "https://gc.com/pricing">> >>

\* the keys of a dict held as a list of pairs
Keys(d) == {d[i][1] : i \in 1..Len(d)}
\* d[key]
Lookup(d, key) == d[CHOOSE i \in 1..Len(d) : d[i][1] = key][2]

\* an optional string argument: absent (None) or given
Absent(empty) == [given |-> FALSE, v |-> empty]
Given(v) == [given |-> TRUE, v |-> v]
\* Python truth of an optional string: given and not empty
Truthy(arg) == arg.given /\ Len(arg.v) > 0

NameMixedCase == <<"T","e","a","m","S","n","a","p">>
NameUnknown == <<"A","c","m","e">>

PricingArgs ==
    [all : BOOLEAN,
     url : {Absent(""), Given(""), Given("https://example.com/pricing")},
     competitor : {Absent(<<>>), Given(<<>>), Given(NameMixedCase), Given(NameUnknown)},
     output : {Absent(""), Given("out.json")}]

\* a variant that falls back to the first competitor for an unknown name
CompetitorUrl_fallback(name) ==
    IF Lower(name) \in Keys(COMPETITOR_URLS)
    THEN Lookup(COMPETITOR_URLS, Lower(name))
    ELSE COMPETITOR_URLS[1][2]

\* COMPETITOR_URLS.get(name.lower()); "" stands for None, both are false
CompetitorUrl(name) ==
    IF Lower(name) \in Keys(COMPETITOR_URLS)
    THEN Lookup(COMPETITOR_URLS, Lower(name))
    ELSE ""

\* the if / elif / elif / else of the script
MainBranch(a) ==
    IF a.all THEN "all"
    ELSE IF Truthy(a.url) THEN "url"
    ELSE IF Truthy(a.competitor) THEN "competitor"
    ELSE "usage"

Line(kind, arg) == [kind |-> kind, arg |-> arg]

\* result["competitor"] = name
WithCompetitor(result, name) ==
    [k \in DOMAIN result \cup {"competitor"} |->
        IF k = "competitor" THEN name ELSE result[k]]

\* output = {"scraped_at": ..., "results": results}
BuildOutput(res) == [results |-> res, built |-> TRUE]

\* the urlopen calls a scrape made, with their outcomes
Calls(url, responses, n) == [i \in 1..n |-> [url |-> url, response |-> responses[i]]]

PricingAt(p) == tool = "pricing" /\ pc = p

\* --all: the loop over COMPETITOR_URLS.items() starts
ScrapeAllStart ==
    /\ PricingAt("main") /\ MainBranch(args) = "all"
    /\ console' = Append(console, Line("scraping_all", <<>>))
    /\ pending' = COMPETITOR_URLS
    /\ pc' = "loop"
    /\ UNCHANGED <<parserVars, analyzeVars, tool, args, results, output,
                   fetches, outfile, exit_code>>

\* --all: one iteration of the loop; after the last one output is built
ScrapeAllStep ==
    /\ PricingAt("loop") /\ pending # <<>>
    /\ \E r1 \in PageResponses, r2 \in PageResponses :
        LET name == Head(pending)[1]
            url == Head(pending)[2]
            got == scrape_pricing_page(url, <<r1, r2>>)
            res == Append(results, WithCompetitor(got.result, name))
        IN /\ console' = Append(console, Line("scraping", name))
           /\ fetches' = fetches \o Calls(url, <<r1, r2>>, got.attempts)
           /\ results' = res
           /\ pending' = Tail(pending)
           /\ IF Tail(pending) = <<>>
              THEN pc' = "emit" /\ output' = BuildOutput(res)
              ELSE pc' = "loop" /\ output' = output
    /\ UNCHANGED <<parserVars, analyzeVars, tool, args, outfile, exit_code>>

\* --url
ScrapeUrl ==
    /\ PricingAt("main") /\ MainBranch(args) = "url"
    /\ \E r1 \in PageResponses, r2 \in PageResponses :
        LET got == scrape_pricing_page(args.url.v, <<r1, r2>>)
            res == Append(results, got.result)
        IN /\ console' = Append(console, Line("scraping", args.url.v))
           /\ fetches' = fetches \o Calls(args.url.v, <<r1, r2>>, got.attempts)
           /\ results' = res
           /\ output' = BuildOutput(res)
    /\ pc' = "emit"
    /\ UNCHANGED <<parserVars, analyzeVars, tool, args, pending, outfile, exit_code>>

\* --competitor with a name of the mapping
ScrapeCompetitor ==
    /\ PricingAt("main") /\ MainBranch(args) = "competitor"
    /\ CompetitorUrl(args.competitor.v) # ""
    /\ \E r1 \in PageResponses, r2 \in PageResponses :
        LET url == CompetitorUrl(args.competitor.v)
            got == scrape_pricing_page(url, <<r1, r2>>)
            res == Append(results, WithCompetitor(got.result, args.competitor.v))
        IN /\ console' = Append(console, Line("scraping", args.competitor.v))
           /\ fetches' = fetches \o Calls(url, <<r1, r2>>, got.attempts)
           /\ results' = res
           /\ output' = BuildOutput(res)
    /\ pc' = "emit"
    /\ UNCHANGED <<parserVars, analyzeVars, tool, args, pending, outfile, exit_code>>

\* --competitor with a name the mapping does not have
UnknownCompetitor ==
    /\ PricingAt("main") /\ MainBranch(args) = "competitor"
    /\ CompetitorUrl(args.competitor.v) = ""
    /\ console' = console \o << Line("unknown_competitor", args.competitor.v),
                                Line("available", Keys(COMPETITOR_URLS)) >>
    /\ output' = BuildOutput(results)
    /\ pc' = "emit"
    /\ UNCHANGED <<parserVars, analyzeVars, tool, args, results, pending,
                   fetches, outfile, exit_code>>

\* no selection: the usage hint and exit(1)
Usage ==
    /\ PricingAt("main") /\ MainBranch(args) = "usage"
    /\ console' = Append(console, Line("usage", <<>>))
    /\ exit_code' = 1
    /\ pc' = "done"
    /\ UNCHANGED <<parserVars, analyzeVars, tool, args, results, pending,
                   output, fetches, outfile>>

\* the output step of either script: write the --output file, which open()
\* may refuse with an exception nothing catches, or print the JSON
EmitTo(written, printed) ==
    /\ pc = "emit"
    /\ IF Truthy(args.output)
       THEN \E opened \in BOOLEAN :
              IF opened
              THEN /\ outfile' = written
                   /\ console' = Append(console, Line("saved", args.output.v))
                   /\ exit_code' = exit_code
              ELSE /\ outfile' = outfile
                   /\ console' = Append(console, Line("traceback", ExcStr(OSErrorOpen)))
                   /\ exit_code' = 1
       ELSE /\ console' = Append(console, Line("json", printed))
            /\ UNCHANGED <<outfile, exit_code>>
    /\ pc' = "done"

EmitPricing ==
    /\ tool = "pricing"
    /\ EmitTo(output, output)
    /\ UNCHANGED <<parserVars, analyzeVars, tool, args, results, pending,
                   output, fetches>>

PricingInit ==
    /\ tool = "pricing"
    /\ args \in PricingArgs
    /\ pc = "main"
    /\ results = <<>>
    /\ pending = <<>>
    /\ output = NoOutput
    /\ fetches = <<>>
    /\ console = <<>>
    /\ outfile = NoOutput
    /\ exit_code = 0

----------------------------------------------------------------------------
(* scrape_apple_reviews                                                    *)

\* JSON values, tagged with their Python type
JDict(f) == [t |-> "dict", v |-> f]
JList(l) == [t |-> "list", v |-> l]
JStr(str) == [t |-> "str", v |-> str]
JInt(n) == [t |-> "int", v |-> n]

\* the outcome of an expression: a value, or an exception raised
Ok(v) == [ok |-> TRUE, v |-> v]
Raised == [ok |-> FALSE, v |-> <<>>]

\* j.get(key, default); AttributeError when j is not a dict
DictGet(j, key, default) ==
    IF j.t # "dict" THEN Raised ELSE Ok(Get(j.v, key, default))

\* entry.get(key, {}).get("label", default)
Label(entry, key, default) ==
    LET inner == DictGet(entry, key, JDict(<<>>)) IN
    IF ~inner.ok THEN Raised ELSE DictGet(inner.v, "label", default)

Digits == <<"0","1","2","3","4","5","6","7","8","9">>
DigitValue(c) == (CHOOSE i \in 1..10 : Digits[i] = c) - 1

RECURSIVE DigitsValue(_, _)
DigitsValue(str, acc) ==
    IF str = <<>> THEN acc
    ELSE DigitsValue(Tail(str), 10 * acc + DigitValue(Head(str)))

\* int(str): surrounding whitespace and a sign are allowed; ValueError otherwise
ParseInt(str) ==
    LET t == Strip(str)
        signed == t # <<>> /\ t[1] \in {"+", "-"}
        body == IF signed THEN Tail(t) ELSE t
    IN IF body = <<>> \/ \E i \in 1..Len(body) : body[i] \notin SeqToSet(Digits)
       THEN Raised
       ELSE Ok(IF signed /\ t[1] = "-" THEN 0 - DigitsValue(body, 0)
               ELSE DigitsValue(body, 0))

\* int(x) of a JSON value; TypeError for a dict or a list
IntOf(j) ==
    IF j.t = "int" THEN Ok(j.v)
    ELSE IF j.t = "str" THEN ParseInt(j.v)
    ELSE Raised

\* the dict built for one entry that has "content"
ReviewOf(entry) ==
    LET rating_label == Label(entry, "im:rating", JInt(0))
        rating == IF rating_label.ok THEN IntOf(rating_label.v) ELSE Raised
        title == Label(entry, "title", JStr(<<>>))
        content == Label(entry, "content", JStr(<<>>))
        author_d == DictGet(entry, "author", JDict(<<>>))
        author == IF author_d.ok THEN Label(author_d.v, "name", JStr(<<>>))
                  ELSE Raised
        version == Label(entry, "im:version", JStr(<<>>))
    IN IF rating.ok /\ title.ok /\ content.ok /\ author.ok /\ version.ok
       THEN Ok([rating |-> rating.v, title |-> title.v.v, content |-> content.v.v,
                author |-> author.v.v, version |-> version.v.v])
       ELSE Raised

\* the for loop over entries[:count]: the list built, and whether it finished
RECURSIVE Normalize(_, _)
Normalize(entries, acc) ==
    IF entries = <<>> THEN Ok(acc)
    ELSE LET entry == Head(entries) IN
         IF entry.t = "dict" /\ "content" \in DOMAIN entry.v
         THEN LET review == ReviewOf(entry) IN
              IF review.ok THEN Normalize(Tail(entries), Append(acc, review.v))
              ELSE [ok |-> FALSE, v |-> acc]
         ELSE Normalize(Tail(entries), acc)

\* the try block up to the loop: data.get("feed", {}).get("entry", [])[:count]
SlicedEntries(response, count) ==
    IF response.kind = "error" \/ ~response.body.valid THEN Raised
    ELSE LET feed == DictGet(response.body.data, "feed", JDict(<<>>))
             entries == IF feed.ok THEN DictGet(feed.v, "entry", JList(<<>>))
                        ELSE Raised
         IN IF ~entries.ok \/ entries.v.t # "list" THEN Raised
            ELSE Ok(SliceTo(entries.v.v, count))

\* a variant that returns what was built before an entry raised
scrape_apple_reviews_partial(app_id, country, count, response) ==
    LET sliced == SlicedEntries(response, count) IN
    IF ~sliced.ok THEN [reviews |-> <<>>, failed |-> TRUE]
    ELSE LET built == Normalize(sliced.v, <<>>) IN
         [reviews |-> built.v, failed |-> ~built.ok]

\* scrape_apple_reviews: the list returned, and whether the except branch ran
scrape_apple_reviews(app_id, country, count, response) ==
    LET sliced == SlicedEntries(response, count) IN
    IF ~sliced.ok THEN [reviews |-> <<>>, failed |-> TRUE]
    ELSE LET built == Normalize(sliced.v, <<>>) IN
         IF built.ok THEN [reviews |-> built.v, failed |-> FALSE]
         ELSE [reviews |-> <<>>, failed |-> TRUE]

----------------------------------------------------------------------------
(* scrape_reviews.py as a script                                           *)

COMPETITOR_APPS ==
    << <<NameTeamsnap, <<"3","9","3","0","4","8","9","7","6">> >>,
       <<NameGamechanger, <<"4","7","6","0","1","6","8","1","7">> >>,
       <<NameSportsengine, <<"5","2","1","5","9","4","2","6","9">> >> >>

\* --count's default
DefaultCount == 50
\* bound on the number of entries of a feed
MaxEntries == 3

RawAppId == <<"1","2","3">>

ReviewArgs ==
    [app : {Absent(<<>>), Given(NameMixedCase), Given(RawAppId)},
     count : {-2, -1, 0, 1, 2, DefaultCount},
     output : {Absent(""), Given("out.json")}]

Labelled(str) == JDict("label" :> JStr(str))

EntryGood ==
    JDict(("im:rating" :> Labelled(<<"5">>)) @@ ("title" :> Labelled(TxtNice))
          @@ ("content" :> Labelled(TxtWouldBe))
          @@ ("author" :> JDict("name" :> Labelled(<<"a","l">>)))
          @@ ("im:version" :> Labelled(<<"1",".","0">>)))
EntryNoRating ==
    JDict(("title" :> Labelled(<<>>)) @@ ("content" :> Labelled(TxtCrash)))
EntryNoContent ==
    JDict(("im:rating" :> Labelled(<<"4">>)) @@ ("title" :> Labelled(TxtNice)))
EntryNotDict == JStr(TxtNice)
EntryBadRating ==
    JDict(("im:rating" :> Labelled(<<"f","i","v","e">>))
          @@ ("content" :> Labelled(TxtMixed)))
EntryBadTitle ==
    JDict(("im:rating" :> Labelled(<<"3">>)) @@ ("title" :> JStr(TxtNice))
          @@ ("content" :> Labelled(TxtMixed)))

EntryChoices == {EntryGood, EntryNoRating, EntryNoContent, EntryNotDict,
                 EntryBadRating, EntryBadTitle}

\* the response body: whether json.loads accepts it, and the value it gives
Body(valid, data) == [valid |-> valid, data |-> data]
FeedOf(entries) == Body(TRUE, JDict("feed" :> JDict("entry" :> entries)))

FeedError(e) == [kind |-> "error", exc |-> e, body |-> Body(FALSE, JDict(<<>>))]
FeedResponse(b) == [kind |-> "body", exc |-> NoExc, body |-> b]

\* the outcomes of the one urlopen of the review feed
FeedResponses ==
    {FeedError(e) : e \in FetchErrors}
    \cup {FeedResponse(Body(FALSE, JDict(<<>>))),
          FeedResponse(Body(TRUE, JDict(<<>>))),
          FeedResponse(FeedOf(EntryGood))}
    \cup {FeedResponse(FeedOf(JList(es))) :
            es \in UNION {[1..n -> EntryChoices] : n \in 0..MaxEntries}}

\* COMPETITOR_APPS.get(args.app.lower(), args.app) if args.app else the default
AppId(app) ==
    IF Truthy(app)
    THEN IF Lower(app.v) \in Keys(COMPETITOR_APPS)
         THEN Lookup(COMPETITOR_APPS, Lower(app.v))
         ELSE app.v
    ELSE Lookup(COMPETITOR_APPS, NameTeamsnap)

\* the script up to the output step: one fetch, the analysis, the result dict
ReviewsMain ==
    /\ tool = "reviews" /\ pc = "main"
    /\ \E response \in FeedResponses :
        LET app_id == AppId(args.app)
            got == scrape_apple_reviews(app_id, "us", args.count, response)
            found == analyze_reviews(got.reviews)
        IN /\ fetches' = Append(fetches, [url |-> <<"us", app_id>>,
                                          response |-> response])
           /\ console' = console
                  \o << Line("scraping_reviews", app_id) >>
                  \o (IF got.failed THEN << Line("error_scraping", <<>>) >> ELSE <<>>)
                  \o << Line("found", Len(got.reviews)) >>
           /\ reviews' = got.reviews
           /\ analysis' = found
           /\ output' = [app_id |-> app_id, reviews |-> got.reviews,
                         analysis |-> found, built |-> TRUE]
    /\ pc' = "emit"
    /\ UNCHANGED <<parserVars, tool, args, results, pending, outfile, exit_code>>

EmitReviews ==
    /\ tool = "reviews"
    /\ EmitTo(output, analysis)
    /\ UNCHANGED <<parserVars, analyzeVars, tool, args, results, pending,
                   output, fetches>>

ReviewsInit ==
    /\ tool = "reviews"
    /\ args \in ReviewArgs
    /\ pc = "main"
    /\ results = <<>>
    /\ pending = <<>>
    /\ output = NoOutput
    /\ fetches = <<>>
    /\ console = <<>>
    /\ outfile = NoOutput
    /\ exit_code = 0

CliInit ==
    /\ ParserIdle
    /\ reviews = <<>>
    /\ analysis = NoAnalysis
    /\ (PricingInit \/ ReviewsInit)

CliNext ==
    \/ ScrapeAllStart
    \/ ScrapeAllStep
    \/ ScrapeUrl
    \/ ScrapeCompetitor
    \/ UnknownCompetitor
    \/ Usage
    \/ EmitPricing
    \/ ReviewsMain
    \/ EmitReviews

SpecCli == CliInit /\ [][CliNext]_vars

----------------------------------------------------------------------------
(* Properties of PricingParser                                             *)

LastEvent == events[Len(events)]

HasKeyword(attrs) ==
    LET c == AttrsGet(attrs, "class", StrVal(<<>>)) IN
    /\ ~c.none
    /\ \E k \in 1..Len(PriceKeywords) : Contains(Lower(c.s), PriceKeywords[k])

NoKeyword(attrs) ==
    LET c == AttrsGet(attrs, "class", StrVal(<<>>)) IN
    /\ ~c.none
    /\ ~\E k \in 1..Len(PriceKeywords) : Contains(Lower(c.s), PriceKeywords[k])

\* events begins with start(keyword), start(no keyword), text T non-blank, end
NestedPrefix ==
    /\ Len(events) >= 4
    /\ events[1].type = "start" /\ HasKeyword(events[1].attrs)
    /\ events[2].type = "start" /\ NoKeyword(events[2].attrs)
    /\ events[3].type = "data" /\ Strip(events[3].data) # <<>>
    /\ events[4].type = "end"

\* C1: right after every end tag in_price is false and current_text is empty;
\* for start(price class), start(other class), text T, end, end the single
\* candidate Strip(T) is recorded at the first end tag and the second end tag
\* records nothing.
C1_EndTagResets ==
    /\ (events # <<>> /\ LastEvent.type = "end")
          => (in_price = FALSE /\ current_text = <<>>)
    /\ (NestedPrefix /\ Len(events) = 4)
          => prices = <<Strip(events[3].data)>>
    /\ (NestedPrefix /\ Len(events) = 5 /\ events[5].type = "end")
          => prices = <<Strip(events[3].data)>>

C1_Witness ==
    /\ NestedPrefix /\ Len(events) = 5 /\ events[5].type = "end"
    /\ Len(prices) = 1

\* C10: current_text is non-empty only while in_price holds; every recorded
\* price is non-empty with no leading or trailing whitespace; a start tag
\* never clears in_price or current_text.
C10_ParserInvariant ==
    /\ [](/\ (current_text # <<>> => in_price)
          /\ \A i \in 1..Len(prices) :
                /\ prices[i] # <<>>
                /\ ~IsSpace(prices[i][1])
                /\ ~IsSpace(prices[i][Len(prices[i])]))
    /\ [][(Len(events') = Len(events) + 1 /\ events'[Len(events')].type = "start")
            => /\ (in_price => in_price')
               /\ current_text' = current_text]_vars

\* text before and after an inner start tag ends up, stripped, in one price
C10_Witness ==
    /\ Len(events) = 5
    /\ events[1].type = "start" /\ HasKeyword(events[1].attrs)
    /\ events[2].type = "data" /\ IsSpace(events[2].data[1])
    /\ events[3].type = "start"
    /\ events[4].type = "data" /\ Strip(events[4].data) # <<>>
    /\ events[5].type = "end"
    /\ prices = <<Strip(events[2].data \o events[4].data)>>
    /\ Len(prices[1]) < Len(events[2].data) + Len(events[4].data)
    /\ ~in_price /\ current_text = <<>>

----------------------------------------------------------------------------
(* Properties of analyze_reviews                                           *)

Analyzed == analysis # NoAnalysis

HasRating(i) == "rating" \in DOMAIN reviews[i]

\* review i's lowercased content + " " + title contains a keyword of the list
Mentions(i, keywords) ==
    LET text == Lower(reviews[i].content \o <<" ">> \o reviews[i].title) IN
    \E k \in 1..Len(keywords) : Contains(text, keywords[k])

ComplaintIdx ==
    {i \in 1..Len(reviews) :
        Mentions(i, ComplaintKeywords) /\ HasRating(i) /\ reviews[i].rating <= 3}

PraiseIdx ==
    {i \in 1..Len(reviews) :
        Mentions(i, PraiseKeywords) /\ HasRating(i) /\ reviews[i].rating >= 4}

FeatureIdx == {i \in 1..Len(reviews) : Mentions(i, FeatureKeywords)}

Least(a, b) == IF a < b THEN a ELSE b

\* C2: a review contributes to complaints iff it mentions a complaint keyword
\* and has rating <= 3, to praises iff it mentions a praise keyword and has
\* rating >= 4, to feature requests iff it mentions a feature phrase; each
\* review contributes at most once per list, and one without a rating field
\* contributes to neither complaints nor praises.
C2_Categorization ==
    Analyzed =>
        /\ Len(analysis.common_complaints) = Least(10, Cardinality(ComplaintIdx))
        /\ Len(analysis.common_praises) = Least(10, Cardinality(PraiseIdx))
        /\ Len(analysis.feature_requests) = Least(10, Cardinality(FeatureIdx))

C2_Witness ==
    /\ Analyzed
    /\ Len(reviews) = 2
    /\ ~HasRating(1) /\ Mentions(1, ComplaintKeywords) /\ Mentions(1, PraiseKeywords)
    /\ HasRating(2) /\ reviews[2].rating = 3 /\ Mentions(2, PraiseKeywords)
    /\ Len(analysis.common_complaints) = 1
    /\ analysis.common_praises = <<>>
    /\ Len(analysis.feature_requests) = 2

InRange(i) == HasRating(i) /\ reviews[i].rating \in 1..5

\* C3: on a non-empty list bucket r counts the reviews rated exactly r, a
\* rating outside 1..5 touches no bucket and adds none, and the buckets sum to
\* the number of reviews rated in 1..5, at most total_reviews = len(reviews).
C3_RatingDistribution ==
    (Analyzed /\ reviews # <<>>) =>
        LET dist == analysis.rating_distribution IN
        /\ DOMAIN dist = 1..5
        /\ \A r \in 1..5 :
              dist[r] = Cardinality({i \in 1..Len(reviews) :
                                        HasRating(i) /\ reviews[i].rating = r})
        /\ dist[1] + dist[2] + dist[3] + dist[4] + dist[5]
              = Cardinality({i \in 1..Len(reviews) : InRange(i)})
        /\ dist[1] + dist[2] + dist[3] + dist[4] + dist[5]
              <= analysis.total_reviews
        /\ analysis.total_reviews = Len(reviews)

C3_Witness ==
    /\ Analyzed
    /\ Len(reviews) >= 3
    /\ \E i \in 1..Len(reviews) : HasRating(i) /\ reviews[i].rating = 6
    /\ \E i \in 1..Len(reviews) : HasRating(i) /\ reviews[i].rating = 4
    /\ analysis.rating_distribution[4] >= 2
    /\ analysis.rating_distribution[4] < analysis.total_reviews

\* the j-th smallest member of a set of indices
Nth(idx, j) == CHOOSE i \in idx : Cardinality({k \in idx : k <= i}) = j

\* list holds, in input order, the first 200 characters of the content of the
\* first (up to 10) reviews of idx
FirstTenOf(list, idx) ==
    /\ Len(list) <= 10
    /\ Len(list) = Least(10, Cardinality(idx))
    /\ \A j \in 1..Len(list) :
          LET c == reviews[Nth(idx, j)].content IN
          /\ Len(list[j]) <= 200
          /\ list[j] = SubSeq(c, 1, Least(200, Len(c)))

\* C6: each categorized list has at most 10 entries, which are the first (up
\* to 10) contributing reviews in input order, each entry being the first 200
\* characters of that review's content.
C6_CapAndTruncate ==
    Analyzed =>
        /\ FirstTenOf(analysis.common_complaints, ComplaintIdx)
        /\ FirstTenOf(analysis.common_praises, PraiseIdx)
        /\ FirstTenOf(analysis.feature_requests, FeatureIdx)

C6_Witness ==
    /\ Analyzed
    /\ Cardinality(ComplaintIdx) = 11
    /\ Len(analysis.common_complaints) = 10
    /\ Len(reviews[1].content) > 200
    /\ Len(analysis.common_complaints[1]) = 200
    /\ analysis.common_complaints[2] # analysis.common_complaints[1]

----------------------------------------------------------------------------
(* Properties of scrape_pricing_page and of scrape_pricing.py              *)

Printed(kind) == \E i \in 1..Len(console) : console[i].kind = kind

\* the fetch raises, or the page has a start tag whose class has no value
ScrapeRaises(response) ==
    \/ response.kind = "error"
    \/ \E i \in 1..Len(response.page.events) :
          /\ response.page.events[i].type = "start"
          /\ \E a \in 1..Len(response.page.events[i].attrs) :
                /\ response.page.events[i].attrs[a][1] = "class"
                /\ response.page.events[i].attrs[a][2].none

\* the URLs the script has passed to scrape_pricing_page so far
PassedUrls ==
    IF tool # "pricing" \/ pc = "main" THEN <<>>
    ELSE IF args.all
         THEN [i \in 1..(Len(COMPETITOR_URLS) - Len(pending)) |-> COMPETITOR_URLS[i][2]]
    ELSE IF Truthy(args.url) THEN <<args.url.v>>
    ELSE IF Truthy(args.competitor)
            /\ Lower(args.competitor.v) \in {NameTeamsnap, NameSportsengine, NameGamechanger}
         THEN <<Lookup(COMPETITOR_URLS, Lower(args.competitor.v))>>
    ELSE <<>>

\* C4: each URL passed to scrape_pricing_page is fetched exactly once and
\* yields exactly one record; when the fetch or the parse raises, the record
\* has success = false, no prices and the non-empty str() of the exception,
\* and the script goes on: the exception does not propagate.
C4_OneAttemptOneRecord ==
    tool = "pricing" =>
        /\ Len(fetches) = Len(PassedUrls)
        /\ Len(results) = Len(PassedUrls)
        /\ \A i \in 1..Len(results) :
              /\ fetches[i].url = PassedUrls[i]
              /\ results[i].url = PassedUrls[i]
              /\ ScrapeRaises(fetches[i].response) =>
                    /\ results[i].success = FALSE
                    /\ results[i].prices_found = {}
                    /\ "error" \in DOMAIN results[i]
                    /\ results[i].error # ""
                    /\ results[i].error =
                          IF fetches[i].response.kind = "error"
                          THEN ExcStr(fetches[i].response.exc)
                          ELSE "'NoneType' object has no attribute 'lower'"
              /\ ~ScrapeRaises(fetches[i].response) => results[i].success = TRUE
        /\ (pc # "done") => (exit_code = 0 /\ ~Printed("traceback"))
        /\ (pc = "done" /\ Printed("traceback")) => Truthy(args.output)

C4_Witness ==
    /\ tool = "pricing" /\ pc = "done" /\ args.all /\ exit_code = 0
    /\ Len(results) = 3
    /\ fetches[1].response.kind = "error" /\ results[1].success = FALSE
    /\ fetches[2].response.kind = "page" /\ results[2].success = FALSE
    /\ results[3].success = TRUE /\ results[3].prices_found # {}

\* the run selects nothing: no --all and no non-empty --url or --competitor
NothingSelected ==
    tool = "pricing" /\ ~args.all /\ ~Truthy(args.url) /\ ~Truthy(args.competitor)

\* the output was printed or written
Emitted ==
    \/ console # <<>> /\ console[Len(console)].kind = "json"
    \/ outfile # NoOutput

\* C8 as stated: a run ends with a non-zero status only when the pricing tool
\* got none of --url, --competitor and --all.
C8_OnlyUsageExitsNonZero ==
    (pc = "done" /\ exit_code # 0) => NothingSelected

\* the statuses the runs do end with: no fetch outcome makes the status
\* non-zero; it is 1 exactly when the pricing tool selects nothing (usage
\* hint, no scrape, no output) or when opening the --output file raises, and
\* 0 after the output was emitted otherwise.
C8_ExitStatus ==
    pc = "done" =>
        /\ exit_code \in {0, 1}
        /\ exit_code = 1 <=> (NothingSelected \/ Printed("traceback"))
        /\ NothingSelected =>
              /\ Printed("usage") /\ fetches = <<>> /\ ~Emitted
              /\ output = NoOutput
        /\ Printed("traceback") => (Truthy(args.output) /\ outfile = NoOutput)
        /\ exit_code = 0 => Emitted

\* --competitor is the branch taken and its name is not in the mapping
UnknownSelected ==
    /\ tool = "pricing" /\ ~args.all /\ ~Truthy(args.url)
    /\ Truthy(args.competitor)
    /\ Lower(args.competitor.v) \notin {NameTeamsnap, NameSportsengine, NameGamechanger}

----------------------------------------------------------------------------
(* Properties of scrape_apple_reviews and of scrape_reviews.py             *)

ReviewsRan == tool = "reviews" /\ pc # "main"

FeedResponseGot == fetches[1].response

\* the response carries a feed whose entry is a list
HasEntryList ==
    /\ FeedResponseGot.kind = "body" /\ FeedResponseGot.body.valid
    /\ "feed" \in DOMAIN FeedResponseGot.body.data.v
    /\ "entry" \in DOMAIN FeedResponseGot.body.data.v.feed.v
    /\ FeedResponseGot.body.data.v.feed.v.entry.t = "list"

FeedEntries == FeedResponseGot.body.data.v.feed.v.entry.v

\* the entry is a mapping with a "content" field
HasContent(entry) == entry.t = "dict" /\ "content" \in DOMAIN entry.v

\* normalizing the entry raises: its rating label is no integer, or its
\* title is no mapping
EntryRaises(entry) ==
    /\ HasContent(entry)
    /\ \/ "title" \in DOMAIN entry.v /\ entry.v["title"].t # "dict"
       \/ /\ "im:rating" \in DOMAIN entry.v
          /\ entry.v["im:rating"].v.label.v \notin {<<"3">>, <<"4">>, <<"5">>}

\* the number of entries entries[:count] keeps
Kept(n, count) ==
    IF count >= 0 THEN Least(count, n)
    ELSE IF n + count > 0 THEN n + count ELSE 0

\* something raises inside scrape_apple_reviews
ScrapeFails ==
    \/ FeedResponseGot.kind = "error"
    \/ ~FeedResponseGot.body.valid
    \/ /\ "feed" \in DOMAIN FeedResponseGot.body.data.v
       /\ "entry" \in DOMAIN FeedResponseGot.body.data.v.feed.v
       /\ FeedResponseGot.body.data.v.feed.v.entry.t # "list"
    \/ /\ HasEntryList
       /\ \E i \in 1..Kept(Len(FeedEntries), args.count) : EntryRaises(FeedEntries[i])

\* C5: when anything raises inside scrape_apple_reviews, also on the k-th
\* entry after earlier ones were normalized, the empty list is returned, and
\* analyze_reviews reports 0 reviews, average 0, five zero buckets and three
\* empty lists.
C5_FailureGivesEmpty ==
    (ReviewsRan /\ ScrapeFails) =>
        /\ reviews = <<>>
        /\ analysis = [total_reviews |-> 0, average_rating |-> 0,
                       rating_distribution |-> [b \in 1..5 |-> 0],
                       common_complaints |-> <<>>, common_praises |-> <<>>,
                       feature_requests |-> <<>>]
        /\ Printed("error_scraping")

C5_Witness ==
    /\ ReviewsRan /\ pc = "done" /\ HasEntryList
    /\ Len(FeedEntries) = 3 /\ args.count = 50
    /\ HasContent(FeedEntries[1]) /\ ~EntryRaises(FeedEntries[1])
    /\ HasContent(FeedEntries[2]) /\ ~EntryRaises(FeedEntries[2])
    /\ EntryRaises(FeedEntries[3])
    /\ reviews = <<>> /\ analysis.total_reviews = 0

\* the indices, among the first k entries, of those with "content"
ContentIdx(k) == {i \in 1..k : HasContent(FeedEntries[i])}

\* reviews are the entries of idx, in feed order
DerivedFrom(idx) ==
    /\ Len(reviews) = Cardinality(idx)
    /\ \A j \in 1..Len(reviews) :
          reviews[j].content = FeedEntries[Nth(idx, j)].v.content.v.label.v

\* C7 as stated: for every count, negative ones included, at most count
\* reviews are returned, each derived from one of the first count entries
\* that has "content", in feed order, with no replacement by a later entry.
C7_AtMostCount ==
    (ReviewsRan /\ HasEntryList /\ ~ScrapeFails) =>
        /\ Len(reviews) <= (IF args.count > 0 THEN args.count ELSE 0)
        /\ DerivedFrom(ContentIdx(IF args.count > 0
                                  THEN Least(args.count, Len(FeedEntries))
                                  ELSE 0))

\* the same for the counts that are not negative
C7_NonNegativeCount ==
    (ReviewsRan /\ HasEntryList /\ ~ScrapeFails /\ args.count >= 0) =>
        /\ Len(reviews) <= args.count
        /\ DerivedFrom(ContentIdx(Least(args.count, Len(FeedEntries))))
====
